---- MODULE Spec2Model ----
(***************************************************************************)
(* Model of gulf (src/src/main.rs): one ball launched by a mouse drag and  *)
(* pulled by user-placed masses.  The program's numbers are f32; they are  *)
(* modelled bit-exactly as IEEE-754 binary32 values with round-to-nearest- *)
(* even, so that rounding, exact halving and NaN are what the build does.  *)
(***************************************************************************)
EXTENDS Integers, Sequences, FiniteSets, TLC

(***************************************************************************)
(* f32.  A number is [s, m, e] standing for (-1)^s * m * 2^e with m a      *)
(* 24-bit significand (2^23 <= m < 2^24); zero is m = 0 and NaN is m = -1. *)
(* Zero is kept as +0: the program never divides a non-zero number by zero *)
(* and never prints a sign, so the sign of zero is unobservable.           *)
(* Exponents are not clamped; RangeOK states that every stored number is   *)
(* in binary32's normal range, so neither overflow nor underflow occurs.   *)
(***************************************************************************)
Pow2(n) == 2^n

NaN == [s |-> 0, m |-> -1, e |-> 0]

Zero == [s |-> 0, m |-> 0, e |-> 0]

IsNaN(a) == a.m = -1

IsZero(a) == a.m = 0

\* The numbers, and the points and vectors made of them.  The operations are
\* functions over these sets, so that an operand is evaluated once.
F32 == [s : {0, 1}, m : Int, e : Int]

V2 == [x : F32, y : F32]

\* Number of bits of a natural number below 2^31.
BitLen[n \in Nat] == IF n = 0 THEN 0 ELSE 1 + BitLen[n \div 2]

\* Round the exact value (-1)^s * (M + f) * 2^e to binary32, where M > 0 is an
\* integer below 2^31 and 0 <= f < 1 is a discarded fraction, non-zero iff
\* sticky.  Callers with sticky = TRUE pass M of at least 26 bits.
Round[s \in {0, 1}, M \in Nat, e \in Int, sticky \in BOOLEAN] ==
    LET n == BitLen[M]
    IN  IF n <= 24
        THEN [s |-> s, m |-> M * Pow2(24 - n), e |-> e - (24 - n)]
        ELSE LET k    == n - 24
                 q    == M \div Pow2(k)
                 r    == M % Pow2(k)
                 half == Pow2(k - 1)
                 up   == r > half \/ (r = half /\ (sticky \/ q % 2 = 1))
                 q1   == IF up THEN q + 1 ELSE q
             IN  IF q1 = Pow2(24)
                 THEN [s |-> s, m |-> Pow2(23), e |-> e + k + 1]
                 ELSE [s |-> s, m |-> q1, e |-> e + k]

\* a + b for non-zero numbers a, b with a.e >= b.e.
AddOrdered[a \in F32, b \in F32] ==
    LET d   == a.e - b.e
        X   == a.m * 8
        Y   == IF d <= 3 THEN b.m * Pow2(3 - d)
               ELSE IF d >= 28 THEN 0 ELSE b.m \div Pow2(d - 3)
        st  == IF d <= 3 THEN FALSE
               ELSE IF d >= 28 THEN TRUE ELSE b.m % Pow2(d - 3) # 0
        e   == a.e - 3
    IN  IF a.s = b.s
        THEN Round[a.s, X + Y, e, st]
        ELSE IF st
             THEN Round[a.s, X - Y - 1, e, TRUE]
             ELSE IF X = Y THEN Zero
                  ELSE IF X > Y THEN Round[a.s, X - Y, e, FALSE]
                       ELSE Round[b.s, Y - X, e, FALSE]

FAdd[a \in F32, b \in F32] ==
    IF IsNaN(a) \/ IsNaN(b) THEN NaN
    ELSE IF IsZero(a) THEN b
    ELSE IF IsZero(b) THEN a
    ELSE IF a.e >= b.e THEN AddOrdered[a, b] ELSE AddOrdered[b, a]

FNeg[a \in F32] == IF IsNaN(a) \/ IsZero(a) THEN a ELSE [a EXCEPT !.s = 1 - a.s]

FSub[a \in F32, b \in F32] == FAdd[a, FNeg[b]]

\* a * b: the 48-bit product of the significands, kept as hi * 2^24 + lo.
FMul[a \in F32, b \in F32] ==
    IF IsNaN(a) \/ IsNaN(b) THEN NaN
    ELSE IF IsZero(a) \/ IsZero(b) THEN Zero
    ELSE LET ah  == a.m \div 4096
             al  == a.m % 4096
             bh  == b.m \div 4096
             bl  == b.m % 4096
             mid == ah * bl + al * bh
             low == al * bl + (mid % 4096) * 4096
             lo  == low % Pow2(24)
             hi  == ah * bh + (mid \div 4096) + (low \div Pow2(24))
             s   == IF a.s = b.s THEN 0 ELSE 1
             \* keep 6 bits of lo below hi, the rest is sticky
             M   == hi * 64 + (lo \div Pow2(18))
         IN  Round[s, M, a.e + b.e + 18, lo % Pow2(18) # 0]

\* One step of the long division: 7 more quotient bits.  <<quotient, remainder>>
DivStep[qr \in Nat \X Nat, d \in Nat] ==
    <<qr[1] * 128 + ((qr[2] * 128) \div d), (qr[2] * 128) % d>>

\* a / b: long division of the significands, 7 quotient bits at a time.
\* 0/0 is NaN; x/0 with x # 0 does not occur (RangeOK).
FDiv[a \in F32, b \in F32] ==
    IF IsNaN(a) \/ IsNaN(b) THEN NaN
    ELSE IF IsZero(b) THEN NaN
    ELSE IF IsZero(a) THEN Zero
    ELSE LET q0 == <<a.m \div b.m, a.m % b.m>>
             q4 == DivStep[DivStep[DivStep[DivStep[q0, b.m], b.m], b.m], b.m]
             s  == IF a.s = b.s THEN 0 ELSE 1
         IN  Round[s, q4[1], a.e - b.e - 28, q4[2] # 0]

\* Integer square root digit by digit.  SqrtBits takes the radicand hi two bits
\* at a time from bit `shift` down; SqrtZeros goes on with `pairs` pairs of zero
\* bits.  Both give <<root, remainder>>.
SqrtBits[hi \in Nat, shift \in Int, root \in Nat, rem \in Nat] ==
    IF shift < 0 THEN <<root, rem>>
    ELSE LET r4 == rem * 4 + ((hi \div Pow2(shift)) % 4)
             t  == root * 4 + 1
         IN  IF r4 >= t THEN SqrtBits[hi, shift - 2, root * 2 + 1, r4 - t]
             ELSE SqrtBits[hi, shift - 2, root * 2, r4]

SqrtZeros[root \in Nat, rem \in Nat, pairs \in Nat] ==
    IF pairs = 0 THEN <<root, rem>>
    ELSE LET r4 == rem * 4
             t  == root * 4 + 1
         IN  IF r4 >= t THEN SqrtZeros[root * 2 + 1, r4 - t, pairs - 1]
             ELSE SqrtZeros[root * 2, r4, pairs - 1]

FSqrtEven[M \in Nat, e \in Int] ==
    LET ir == SqrtBits[M, 24, 0, 0]
        fr == SqrtZeros[ir[1], ir[2], 14]
    IN  Round[0, fr[1], (e \div 2) - 14, fr[2] # 0]

FSqrt[a \in F32] ==
    IF IsNaN(a) THEN NaN
    ELSE IF IsZero(a) THEN Zero
    ELSE IF a.s = 1 THEN NaN
    ELSE IF a.e % 2 = 1 THEN FSqrtEven[a.m * 2, a.e - 1]
    ELSE FSqrtEven[a.m, a.e]

\* Comparisons; every comparison with NaN is false.
AbsLt(a, b) ==
    IF IsZero(b) THEN FALSE
    ELSE IF IsZero(a) THEN TRUE
    ELSE a.e < b.e \/ (a.e = b.e /\ a.m < b.m)

FLt[a \in F32, b \in F32] ==
    /\ ~IsNaN(a)
    /\ ~IsNaN(b)
    /\ LET an == a.s = 1 /\ ~IsZero(a)
           bn == b.s = 1 /\ ~IsZero(b)
       IN  IF an /\ ~bn THEN TRUE
           ELSE IF ~an /\ bn THEN FALSE
           ELSE IF an THEN AbsLt(b, a) ELSE AbsLt(a, b)

FGt[a \in F32, b \in F32] == FLt[b, a]

FEq[a \in F32, b \in F32] == ~IsNaN(a) /\ ~IsNaN(b) /\ a = b

FLe[a \in F32, b \in F32] == FLt[a, b] \/ FEq[a, b]

FGe[a \in F32, b \in F32] == FLe[b, a]

\* The f32 equal to the integer n, |n| < 2^24.
FromInt(n) ==
    IF n = 0 THEN Zero
    ELSE IF n > 0 THEN Round[0, n, 0, FALSE] ELSE Round[1, 0 - n, 0, FALSE]

(***************************************************************************)
(* nalgebra's Point2<f32> / Vector2<f32>, as main.rs uses them.            *)
(***************************************************************************)
Vec(x, y) == [x |-> x, y |-> y]

\* Point2::new(x, y) with whole-number coordinates.
Pt(x, y) == Vec(FromInt(x), FromInt(y))

VSub[p \in V2, q \in V2] == Vec(FSub[p.x, q.x], FSub[p.y, q.y])

VAdd[p \in V2, v \in V2] == Vec(FAdd[p.x, v.x], FAdd[p.y, v.y])

VScale[v \in V2, k \in F32] == Vec(FMul[v.x, k], FMul[v.y, k])

\* Vector2::norm / magnitude: sqrt(x*x + y*y).
Norm[v \in V2] == FSqrt[FAdd[FMul[v.x, v.x], FMul[v.y, v.y]]]

\* Division of a vector by a scalar, component by component.
VDiv[v \in V2, k \in F32] == Vec(FDiv[v.x, k], FDiv[v.y, k])

\* Vector2::normalize: self / self.norm(), with no test for a zero norm.
Normalize[v \in V2] == VDiv[v, Norm[v]]

VIsNaN(v) == IsNaN(v.x) \/ IsNaN(v.y)

\* PartialEq on points: component-wise f32 equality.
VEq(p, q) == FEq[p.x, q.x] /\ FEq[p.y, q.y]

(***************************************************************************)
(* Program constants.                                                      *)
(***************************************************************************)
\* 6.674e-11 as f32
GravConst == [s |-> 0, m |-> 9618248, e |-> -57]

\* 1e9 as f32
BodyMass == [s |-> 0, m |-> 15625000, e |-> 6]

BodyRadius == FromInt(10)

BALL_MASS == FromInt(2)

Two == FromInt(2)

\* 1e-2 as f32
EPSILON == [s |-> 0, m |-> 10737418, e |-> -30]

\* BigMass::gravity
gravity(b) == FMul[FMul[GravConst, b.mass], FMul[b.radius, b.radius]]

NewBody(p) == [pos |-> p, mass |-> BodyMass, radius |-> BodyRadius]

(***************************************************************************)
(* Bounds and inputs.                                                      *)
(***************************************************************************)
\* Input events (pointer and key) handled in one run.
MaxInputs == 3

\* Input events handled while the ball is moving (cur_vel > EPSILON).
MaxMid == 1

\* Pointer-ups that set the ball moving.
MaxLaunch == 1

\* Length of the body list a frame starts from (FrameSpec).
MaxBodies == 2

\* Pointer positions the host reports: the ball's start, the start + (3, 4),
\* and a point next to the start.
MousePts == {Pt(50, 50), Pt(53, 54), Pt(49, 51)}

\* MousePts and the pointer position the program starts with.
AllPts == MousePts \cup {Pt(0, 0)}

Keys == {"M", "Other"}

(***************************************************************************)
(* State: the fields of MainState, and history for the properties:         *)
(*   downs    pointer-downs since the most recent pointer-up (or start)    *)
(*   last     the most recent event and the pointer position it came with  *)
(*   inputs, mid, launches   the counters the bounds above cap             *)
(***************************************************************************)
VARIABLES ball_pos, bodies, anchored, mouse_pos, cur_vel,
          downs, last, inputs, mid, launches

fields == <<ball_pos, bodies, anchored, mouse_pos, cur_vel>>

vars == <<ball_pos, bodies, anchored, mouse_pos, cur_vel,
          downs, last, inputs, mid, launches>>

Event(ev, at) == [ev |-> ev, at |-> at]

\* MainState::new
Init ==
    /\ ball_pos = Pt(50, 50)
    /\ bodies = <<>>
    /\ anchored = FALSE
    /\ mouse_pos = Pt(0, 0)
    /\ cur_vel = Zero
    /\ downs = 0
    /\ last = Event("new", Pt(0, 0))
    /\ inputs = 0
    /\ mid = 0
    /\ launches = 0

get_forward(ball, mouse) == VSub[ball, mouse]

\* Active with a slip: a ball at rest still counts as moving.
Active_nonneg(v) == FGe[v, Zero]

\* The guard of update: cur_vel > EPSILON.
Active(v) == FGt[v, EPSILON]

\* FoldBodies with a slip: only the first body pulls.
FoldBodies_first(displ, bs, ball) ==
    IF bs = <<>> THEN displ
    ELSE VAdd[displ, VScale[Normalize[VSub[Head(bs).pos, ball]], gravity(Head(bs))]]

\* The fold over bodies: each adds normalize(body.0 - ball_pos) * gravity.
RECURSIVE FoldBodies(_, _, _)
FoldBodies(displ, bs, ball) ==
    IF bs = <<>> THEN displ
    ELSE LET body_dir == VSub[Head(bs).pos, ball]
         IN  FoldBodies(VAdd[displ, VScale[Normalize[body_dir], gravity(Head(bs))]],
                        Tail(bs), ball)

\* Displacement with a slip: the speed is halved before the ball moves.
Displacement_halved(ball, mouse, vel, bs) ==
    FoldBodies(VScale[Normalize[get_forward(ball, mouse)], FDiv[vel, Two]], bs, ball)

\* displ_vec of update.
Displacement(ball, mouse, vel, bs) ==
    FoldBodies(VScale[Normalize[get_forward(ball, mouse)], vel], bs, ball)

\* cur_vel /= 2.0
Decay(v) == FDiv[v, Two]

\* LaunchSpeed with a slip: the force is not divided by BALL_MASS.
LaunchSpeed_force(ball, mouse) == Norm[get_forward(ball, mouse)]

\* cur_vel as mouse_button_up_event sets it.
LaunchSpeed(ball, mouse) == FDiv[Norm[get_forward(ball, mouse)], BALL_MASS]

\* PushBody with a slip: the new body goes to the front.
PushBody_front(bs, p) == <<NewBody(p)>> \o bs

\* bodies.push((mouse_pos, BigMass { mass: 1e9, radius: 10.0 }))
PushBody(bs, p) == Append(bs, NewBody(p))

\* An input event is handled: the bounds allow it, and it is counted.
Input ==
    /\ inputs < MaxInputs
    /\ Active(cur_vel) => mid < MaxMid
    /\ inputs' = inputs + 1
    /\ mid' = IF Active(cur_vel) THEN mid + 1 ELSE mid

Update ==
    /\ IF Active(cur_vel)
       THEN /\ ball_pos' = VAdd[ball_pos, Displacement(ball_pos, mouse_pos, cur_vel, bodies)]
            /\ cur_vel' = Decay(cur_vel)
       ELSE UNCHANGED <<ball_pos, cur_vel>>
    /\ last' = Event("update", mouse_pos)
    /\ UNCHANGED <<bodies, anchored, mouse_pos, downs, inputs, mid, launches>>

\* draw only reads the state.
Draw ==
    /\ last' = Event("draw", mouse_pos)
    /\ UNCHANGED <<ball_pos, bodies, anchored, mouse_pos, cur_vel,
                   downs, inputs, mid, launches>>

MouseButtonDown ==
    /\ Input
    /\ anchored' = TRUE
    /\ downs' = downs + 1
    /\ last' = Event("down", mouse_pos)
    /\ UNCHANGED <<ball_pos, bodies, mouse_pos, cur_vel, launches>>

\* MouseButtonUp with a slip: anchored is not cleared.
MouseButtonUp_anchored ==
    /\ Input
    /\ cur_vel' = LaunchSpeed(ball_pos, mouse_pos)
    /\ downs' = 0
    /\ launches' = IF Active(cur_vel') THEN launches + 1 ELSE launches
    /\ launches' <= MaxLaunch
    /\ last' = Event("up", mouse_pos)
    /\ UNCHANGED <<ball_pos, bodies, mouse_pos, anchored>>

MouseButtonUp ==
    /\ Input
    /\ cur_vel' = LaunchSpeed(ball_pos, mouse_pos)
    /\ anchored' = FALSE
    /\ downs' = 0
    /\ launches' = IF Active(cur_vel') THEN launches + 1 ELSE launches
    /\ launches' <= MaxLaunch
    /\ last' = Event("up", mouse_pos)
    /\ UNCHANGED <<ball_pos, bodies, mouse_pos>>

\* MouseMotion with a slip: x and y are swapped.
MouseMotion_swapped(p) ==
    /\ Input
    /\ mouse_pos' = Vec(p.y, p.x)
    /\ last' = Event("move", p)
    /\ UNCHANGED <<ball_pos, bodies, anchored, cur_vel, downs, launches>>

MouseMotion(p) ==
    /\ Input
    /\ mouse_pos' = p
    /\ last' = Event("move", p)
    /\ UNCHANGED <<ball_pos, bodies, anchored, cur_vel, downs, launches>>

KeyDown(k) ==
    /\ Input
    /\ bodies' = IF k = "M" THEN PushBody(bodies, mouse_pos) ELSE bodies
    /\ last' = Event(IF k = "M" THEN "keyM" ELSE "key", mouse_pos)
    /\ UNCHANGED <<ball_pos, anchored, mouse_pos, cur_vel, downs, launches>>

Next ==
    \/ Update
    \/ Draw
    \/ MouseButtonDown
    \/ MouseButtonUp
    \/ \E p \in MousePts : MouseMotion(p)
    \/ \E k \in Keys : KeyDown(k)

Spec == Init /\ [][Next]_vars

\* The host calls update every frame.
FairSpec == Spec /\ WF_vars(Update)

(***************************************************************************)
(* One launch, frame by frame: the bodies were placed while the ball was   *)
(* at its start, the pointer-up came with the pointer at `from`, and the   *)
(* pointer has since moved to mouse_pos; from there the host only calls    *)
(* update and draw.                                                        *)
(***************************************************************************)
RECURSIVE BodyLists(_)
BodyLists(n) ==
    IF n = 0 THEN {<<>>}
    ELSE BodyLists(n - 1) \cup
         {PushBody(bs, p) : bs \in {b \in BodyLists(n - 1) : Len(b) = n - 1}, p \in AllPts}

FrameInit ==
    /\ ball_pos = Pt(50, 50)
    /\ bodies \in BodyLists(MaxBodies)
    /\ anchored = FALSE
    /\ mouse_pos \in AllPts
    /\ \E from \in AllPts :
          /\ cur_vel = LaunchSpeed(ball_pos, from)
          /\ last = Event(IF from = mouse_pos THEN "up" ELSE "move", mouse_pos)
    /\ downs = 0
    /\ inputs = 0
    /\ mid = 0
    /\ launches = 0

FrameNext ==
    \/ Update
    \/ Draw

FrameSpec == FrameInit /\ [][FrameNext]_vars

(***************************************************************************)
(* Well-formedness of the model's numbers: every stored number is NaN,     *)
(* zero or a normal binary32 value, and update never divides a non-zero    *)
(* component by a zero norm.                                               *)
(***************************************************************************)
NumOK(a) ==
    \/ IsNaN(a)
    \/ a = Zero
    \/ /\ a.s \in {0, 1}
       /\ a.m >= Pow2(23)
       /\ a.m < Pow2(24)
       /\ a.e >= -149
       /\ a.e <= 104

NormOK(v) == VIsNaN(v) \/ (IsZero(Norm[v]) => (IsZero(v.x) /\ IsZero(v.y)))

RangeOK ==
    /\ NumOK(ball_pos.x)
    /\ NumOK(ball_pos.y)
    /\ NumOK(mouse_pos.x)
    /\ NumOK(mouse_pos.y)
    /\ NumOK(cur_vel)
    /\ NormOK(get_forward(ball_pos, mouse_pos))
    /\ \A i \in 1..Len(bodies) : NormOK(VSub[bodies[i].pos, ball_pos])

(***************************************************************************)
(* Helpers of the properties.                                              *)
(***************************************************************************)
FAbs(a) == IF IsNaN(a) THEN a ELSE [a EXCEPT !.s = 0]

\* 2^-10, the tolerance of the approximate comparisons below.
Tol == [s |-> 0, m |-> Pow2(23), e |-> -33]

\* Both undefined, or within Tol of each other.
Close(a, b) ==
    IF IsNaN(a) \/ IsNaN(b) THEN IsNaN(a) /\ IsNaN(b)
    ELSE FLe[FAbs(FSub[a, b]), Tol]

VClose(p, q) == Close(p.x, q.x) /\ Close(p.y, q.y)

Half(v) == [v EXCEPT !.e = @ - 1]

Start == Pt(50, 50)

(***************************************************************************)
(* C1.  dragging (anchored) is true exactly when at least one pointer-down *)
(* has occurred since the most recent pointer-up (or since the start):     *)
(* repeated downs keep it true, repeated ups keep it false, and no other   *)
(* event changes it.                                                       *)
(***************************************************************************)
C1_DraggingIffDown == anchored <=> (downs >= 1)

C1_Witness == anchored /\ downs >= 2 /\ last.ev = "down"

(***************************************************************************)
(* C2.  Every pointer-up, preceded by a pointer-down or not, sets cur_vel  *)
(* to magnitude(ball_pos - mouse_pos) / 2 of the state it happens in and   *)
(* leaves ball_pos, mouse_pos and bodies alone; a pointer at ball + (3, 4) *)
(* gives 2.5 and a pointer on the ball gives 0.0, which update ignores.    *)
(***************************************************************************)
C2_IsHalfMagnitude(v, f) ==
    LET n  == FMul[v, Two]
        sq == FAdd[FMul[f.x, f.x], FMul[f.y, f.y]]
    IN  IF VIsNaN(f) THEN IsNaN(v)
        ELSE /\ FGe[v, Zero]
             /\ FGe[n, FAbs(f.x)]
             /\ FGe[n, FAbs(f.y)]
             /\ FLe[n, FAdd[FAbs(f.x), FAbs(f.y)]]
             \* n * n is sq up to a relative error of 2^-20
             /\ FLe[FAbs(FSub[FMul[n, n], sq]), FMul[sq, [Tol EXCEPT !.e = @ - 10]]]
             /\ (FAbs(f.x) = FromInt(3) /\ FAbs(f.y) = FromInt(4)) => v = FDiv[FromInt(5), Two]
             /\ (IsZero(f.x) /\ IsZero(f.y)) => (v = Zero /\ FLe[v, EPSILON])

C2_PointerUp ==
    [][last'.ev = "up" =>
          /\ C2_IsHalfMagnitude(cur_vel', VSub[ball_pos, mouse_pos])
          /\ UNCHANGED <<ball_pos, mouse_pos, bodies>>]_vars

\* A pointer-up with no pointer-down before it, the pointer at ball + (3, 4).
C2_Witness ==
    /\ last.ev = "up"
    /\ inputs = 2
    /\ mouse_pos = Pt(53, 54)
    /\ ball_pos = Start
    /\ cur_vel = FDiv[FromInt(5), Two]

(***************************************************************************)
(* C3.  When update runs with cur_vel > EPSILON and the ball exactly on    *)
(* the pointer or on a body, the zero direction normalizes to zero and     *)
(* ball_pos stays a defined point.                                         *)
(***************************************************************************)
Coincides ==
    \/ VEq(ball_pos, mouse_pos)
    \/ \E i \in 1..Len(bodies) : VEq(ball_pos, bodies[i].pos)

C3_ZeroVectorDefined ==
    [][(last'.ev = "update" /\ FGt[cur_vel, EPSILON] /\ Coincides) =>
          ~VIsNaN(ball_pos')]_vars

(***************************************************************************)
(* C4.  update with cur_vel <= EPSILON changes no field, whatever bodies   *)
(* exist and wherever they are.                                            *)
(***************************************************************************)
C4_RestIsNoOp ==
    [][(last'.ev = "update" /\ FLe[cur_vel, EPSILON]) => UNCHANGED fields]_vars

\* update ran on a ball at rest with a body present (halving never gives 0).
C4_Witness ==
    /\ last.ev = "update"
    /\ cur_vel = Zero
    /\ bodies # <<>>
    /\ ~VEq(bodies[1].pos, ball_pos)

(***************************************************************************)
(* C5.  With cur_vel > EPSILON, no bodies and the ball off the pointer,    *)
(* one update halves cur_vel exactly and moves the ball by                 *)
(* normalize(ball_pos - mouse_pos) * (the old cur_vel); mouse_pos and      *)
(* anchored stay.                                                          *)
(***************************************************************************)
C5_Moved(ball, ball2, mouse, vel) ==
    /\ ball2 = VAdd[ball, VScale[Normalize[VSub[ball, mouse]], vel]]
    /\ ~VIsNaN(ball) =>
          \* the ball moved by vel, straight away from the pointer
          /\ Close(Norm[VSub[ball2, ball]], vel)
          /\ Close(Norm[VSub[ball2, mouse]], FAdd[Norm[VSub[ball, mouse]], vel])

C5_DecayLaw ==
    [][(/\ last'.ev = "update"
        /\ FGt[cur_vel, EPSILON]
        /\ bodies = <<>>
        /\ ~VEq(ball_pos, mouse_pos)) =>
          /\ cur_vel' = Half(cur_vel)
          /\ C5_Moved(ball_pos, ball_pos', mouse_pos, cur_vel)
          /\ UNCHANGED <<mouse_pos, anchored>>]_vars

\* The first update of a launch from ball + (3, 4): the ball moved by 2.5.
C5_Witness ==
    /\ last.ev = "update"
    /\ bodies = <<>>
    /\ mouse_pos = Pt(53, 54)
    /\ cur_vel = FDiv[FromInt(5), FromInt(4)]
    /\ ~VIsNaN(ball_pos)
    /\ ball_pos # Start

(***************************************************************************)
(* C6.  Key M appends one body (mass 1e9, radius 10.0) at mouse_pos to the *)
(* end of bodies, dragging or not, and changes nothing else; any other key *)
(* changes nothing; no event removes, reorders or modifies a body.         *)
(***************************************************************************)
C6_AppendOnly ==
    [][/\ last'.ev = "keyM" =>
             /\ bodies' = bodies \o <<[pos |-> mouse_pos, mass |-> BodyMass,
                                       radius |-> FromInt(10)]>>
             /\ UNCHANGED <<ball_pos, anchored, mouse_pos, cur_vel>>
       /\ last'.ev = "key" => UNCHANGED fields
       /\ last'.ev # "keyM" => bodies' = bodies]_vars

\* A second body placed while dragging.
C6_Witness == last.ev = "keyM" /\ Len(bodies) = 2 /\ anchored

(***************************************************************************)
(* C7.  cur_vel >= 0 in every reachable state.                             *)
(***************************************************************************)
C7_SpeedNonNegative == FGe[cur_vel, Zero]

(***************************************************************************)
(* C8.  One update gives the same ball_pos for every permutation of the    *)
(* body list: each body adds its term once, its direction taken from the   *)
(* ball_pos before the update.                                             *)
(***************************************************************************)
Perms(bs) ==
    {[i \in 1..Len(bs) |-> bs[f[i]]] : f \in Permutations(1..Len(bs))}

\* As claimed: the very same point.
C8_SameForEveryOrder ==
    [][(last'.ev = "update" /\ FGt[cur_vel, EPSILON]) =>
          \A bs \in Perms(bodies) :
             ball_pos' = VAdd[ball_pos, Displacement(ball_pos, mouse_pos, cur_vel, bs)]]_vars

\* As amended: the same point up to rounding (within Tol, or undefined alike).
C8_SameUpToRounding ==
    [][(last'.ev = "update" /\ FGt[cur_vel, EPSILON]) =>
          \A bs \in Perms(bodies) :
             VClose(ball_pos',
                    VAdd[ball_pos, Displacement(ball_pos, mouse_pos, cur_vel, bs)])]_vars

\* A second frame of a launch with two bodies at different places.
C8_Witness ==
    /\ last.ev = "update"
    /\ Len(bodies) = 2
    /\ bodies[1].pos # bodies[2].pos
    /\ ~VIsNaN(ball_pos)
    /\ Active(cur_vel)
    /\ ball_pos # Start

(***************************************************************************)
(* C9.  A pointer-move to (x, y) sets mouse_pos to (x, y), dragging or     *)
(* not, and changes nothing else; a pointer-down changes only anchored;    *)
(* draw changes no field.                                                  *)
(***************************************************************************)
C9_FrameEffects ==
    [][/\ last'.ev = "move" =>
             /\ mouse_pos' = last'.at
             /\ UNCHANGED <<ball_pos, bodies, anchored, cur_vel>>
       /\ last'.ev = "down" => UNCHANGED <<ball_pos, bodies, mouse_pos, cur_vel>>
       /\ last'.ev = "draw" => UNCHANGED fields]_vars

\* A pointer-move while dragging.
C9_Witness == last.ev = "move" /\ anchored /\ mouse_pos = Pt(53, 54)

(***************************************************************************)
(* C10.  After a pointer-up, with update called every frame and no further *)
(* pointer-up, cur_vel falls on every active update and reaches a value    *)
(* <= EPSILON after finitely many; from then on it stays there and ball_pos*)
(* does not change until the next pointer-up.  (A run has finitely many    *)
(* pointer-ups, so the last one must lead to rest.)                        *)
(***************************************************************************)
C10_DecaysToRest ==
    /\ [][(last'.ev = "update" /\ FGt[cur_vel, EPSILON]) => FLt[cur_vel', cur_vel]]_vars
    /\ (last.ev = "up") ~> FLe[cur_vel, EPSILON]
    /\ [][(FLe[cur_vel, EPSILON] /\ last'.ev # "up") =>
             (FLe[cur_vel', EPSILON] /\ ball_pos' = ball_pos)]_vars

====
